---- MODULE Spec2Model ----
(***************************************************************************)
(* Model of terraform/lambda/lambda_function.py (ESP-Rover voice relay):   *)
(* the command catalog, parse_command_from_text, transcribe_audio,         *)
(* process_voice_command and lambda_handler.                               *)
(*                                                                         *)
(* A Python str is modelled as a sequence of atoms; an atom is a word or   *)
(* the whitespace atom " ".  Upper-case words are separate atoms that      *)
(* str.lower() maps to their lower-case atom.  A Python dict object lives  *)
(* in `heap` under a reference (a positive integer); reference 0 is None.  *)
(***************************************************************************)
EXTENDS Integers, Sequences, FiniteSets, TLC

\* ------------------------------------------------------------------ bounds
\* longest input of arbitrary words, and of words of CoreVocabulary
MaxTokens == 2
MaxCoreTokens == 3
\* leading/trailing whitespace and separator width of a "spaced" input
PadWidth == 1
SepWidth == 2
\* longest transcript of arbitrary spoken words the speech service returns
MaxTranscriptTokens == 1

\* ----------------------------------------------------------------- strings
None == "None"
NoneRef == 0
SP == " "

\* every word of a catalog phrase
CatalogWords ==
    { "forward", "move", "go", "backward", "reverse", "turn", "left", "right",
      "strafe", "slide", "stop", "halt", "freeze",
      "slow", "fast", "quickly", "slowly" }

\* a word that occurs in no catalog phrase
OtherWords == { "really" }

Vocabulary == CatalogWords \cup OtherWords

\* the words the longer inputs are made of
CoreVocabulary ==
    { "forward", "go", "turn", "left", "stop", "fast", "quickly", "slowly", "really" }

\* upper-case spelling of each word, paired with what str.lower() makes of it
UpperPairs ==
    { <<"FORWARD", "forward">>, <<"MOVE", "move">>, <<"GO", "go">>,
      <<"BACKWARD", "backward">>, <<"REVERSE", "reverse">>, <<"TURN", "turn">>,
      <<"LEFT", "left">>, <<"RIGHT", "right">>, <<"STRAFE", "strafe">>,
      <<"SLIDE", "slide">>, <<"STOP", "stop">>, <<"HALT", "halt">>,
      <<"FREEZE", "freeze">>, <<"SLOW", "slow">>, <<"FAST", "fast">>,
      <<"QUICKLY", "quickly">>, <<"SLOWLY", "slowly">>, <<"REALLY", "really">> }

LowerAtom(a) ==
    IF \E p \in UpperPairs : p[1] = a
    THEN (CHOOSE p \in UpperPairs : p[1] = a)[2]
    ELSE a

UpperAtom(a) ==
    IF \E p \in UpperPairs : p[2] = a
    THEN (CHOOSE p \in UpperPairs : p[2] = a)[1]
    ELSE a

\* str.lower()
Lower(s) == [i \in 1..Len(s) |-> LowerAtom(s[i])]

\* str.upper(), used only to build inputs
Upper(s) == [i \in 1..Len(s) |-> UpperAtom(s[i])]

RECURSIVE LStrip(_)
LStrip(s) == IF s # <<>> /\ Head(s) = SP THEN LStrip(Tail(s)) ELSE s

RECURSIVE RStrip(_)
RStrip(s) ==
    IF s # <<>> /\ s[Len(s)] = SP THEN RStrip(SubSeq(s, 1, Len(s) - 1)) ELSE s

\* str.strip()
Strip(s) == RStrip(LStrip(s))

\* str.split(): the maximal runs of non-whitespace atoms, in order
RECURSIVE SplitFrom(_, _, _)
SplitFrom(s, cur, acc) ==
    IF s = <<>>
    THEN IF cur = <<>> THEN acc ELSE Append(acc, cur)
    ELSE IF Head(s) = SP
         THEN SplitFrom(Tail(s), <<>>, IF cur = <<>> THEN acc ELSE Append(acc, cur))
         ELSE SplitFrom(Tail(s), Append(cur, Head(s)), acc)

Split(s) == SplitFrom(s, <<>>, <<>>)

\* `x in list`
InList(x, l) == \E i \in 1..Len(l) : l[i] = x

\* ----------------------------------------------------------------- catalog
\* the keys of COMMAND_MAPPINGS in definition (= dict iteration) order
CatalogKeys ==
    << <<"forward">>, <<"move", SP, "forward">>, <<"go", SP, "forward">>,
       <<"backward">>, <<"move", SP, "backward">>, <<"go", SP, "backward">>,
       <<"reverse">>,
       <<"turn", SP, "left">>, <<"left">>, <<"turn", SP, "right">>, <<"right">>,
       <<"strafe", SP, "left">>, <<"slide", SP, "left">>,
       <<"strafe", SP, "right">>, <<"slide", SP, "right">>,
       <<"forward", SP, "left">>, <<"forward", SP, "right">>,
       <<"backward", SP, "left">>, <<"backward", SP, "right">>,
       <<"stop">>, <<"halt">>, <<"freeze">>,
       <<"slow">>, <<"fast">>, <<"quickly">>, <<"slowly">> >>

Cmd(a, d, s) == [action |-> a, direction |-> d, speed |-> s]
Modifier(v) == [modifier |-> "speed", value |-> v]

\* the values of COMMAND_MAPPINGS, in the same order
CatalogValues ==
    << Cmd("move", "forward", "normal"), Cmd("move", "forward", "normal"),
       Cmd("move", "forward", "normal"),
       Cmd("move", "backward", "normal"), Cmd("move", "backward", "normal"),
       Cmd("move", "backward", "normal"), Cmd("move", "backward", "normal"),
       Cmd("turn", "left", "normal"), Cmd("turn", "left", "normal"),
       Cmd("turn", "right", "normal"), Cmd("turn", "right", "normal"),
       Cmd("strafe", "left", "normal"), Cmd("strafe", "left", "normal"),
       Cmd("strafe", "right", "normal"), Cmd("strafe", "right", "normal"),
       Cmd("diagonal", "forward_left", "normal"),
       Cmd("diagonal", "forward_right", "normal"),
       Cmd("diagonal", "backward_left", "normal"),
       Cmd("diagonal", "backward_right", "normal"),
       Cmd("stop", None, None), Cmd("stop", None, None), Cmd("stop", None, None),
       Modifier("slow"), Modifier("fast"), Modifier("fast"), Modifier("slow") >>

NumPhrases == Len(CatalogKeys)

\* the dict COMMAND_MAPPINGS: key number i is bound to the dict object i
CatalogRefs == 1..NumPhrases

\* the heap right after module import: one dict object per catalog entry
InitialHeap == [r \in CatalogRefs |-> CatalogValues[r]]

\* COMMAND_MAPPINGS[key] as a reference, NoneRef when `key not in COMMAND_MAPPINGS`
Lookup(key) ==
    IF \E i \in CatalogRefs : CatalogKeys[i] = key
    THEN CHOOSE i \in CatalogRefs : CatalogKeys[i] = key
    ELSE NoneRef

HasKey(d, k) == k \in DOMAIN d

\* ------------------------------------------------------------ dict objects
FreshRef(h) == CHOOSE n \in 1..(NumPhrases + 2) : n \notin DOMAIN h

\* (mutant) the "copy" is the object itself
DictCopyAlias(h, r) == [heap |-> h, ref |-> r]

\* dict.copy(): a new object with the same items
DictCopy(h, r) ==
    LET n == FreshRef(h)
    IN  [heap |-> [x \in DOMAIN h \cup {n} |-> IF x = n THEN h[r] ELSE h[x]],
         ref |-> n]

\* d[k] = v on the object r
DictSet(h, r, k, v) ==
    [h EXCEPT ![r] = [x \in DOMAIN h[r] \cup {k} |-> IF x = k THEN v ELSE h[r][x]]]

\* an object no name refers to any more is reclaimed; catalog objects never are
Release(h, r) ==
    IF r \in DOMAIN h /\ r \notin CatalogRefs
    THEN [x \in DOMAIN h \ {r} |-> h[x]]
    ELSE h

\* --------------------------------------------------- parse_command_from_text
\* (mutant) no `break`: the last speed modifier wins
RECURSIVE SpeedModifierScanLast(_, _)
SpeedModifierScanLast(h, words) ==
    IF words = <<>>
    THEN None
    ELSE LET r == Lookup(words[Len(words)])
         IN  IF r # NoneRef /\ HasKey(h[r], "modifier") /\ h[r]["modifier"] = "speed"
             THEN h[r]["value"]
             ELSE SpeedModifierScanLast(h, SubSeq(words, 1, Len(words) - 1))

\* lines 232-235: the value of the first word, in order, that is a speed modifier
RECURSIVE SpeedModifierScan(_, _)
SpeedModifierScan(h, words) ==
    IF words = <<>>
    THEN None
    ELSE LET r == Lookup(Head(words))
         IN  IF r # NoneRef /\ HasKey(h[r], "modifier") /\ h[r]["modifier"] = "speed"
             THEN h[r]["value"]
             ELSE SpeedModifierScan(h, Tail(words))

\* lines 246-251: how many words of the phrase are among the input words
\* (mutant) counts the input tokens that occur in the phrase, so a repeated token
\* is counted twice
RECURSIVE MatchCountTokens(_, _)
MatchCountTokens(phrase_words, words) ==
    IF words = <<>>
    THEN 0
    ELSE (IF InList(Head(words), phrase_words) THEN 1 ELSE 0)
         + MatchCountTokens(phrase_words, Tail(words))

RECURSIVE MatchCount(_, _)
MatchCount(phrase_words, words) ==
    IF phrase_words = <<>>
    THEN 0
    ELSE (IF InList(Head(phrase_words), words) THEN 1 ELSE 0)
         + MatchCount(Tail(phrase_words), words)

\* (mutant) `>=` for `>`: a later phrase with an equal score replaces the best
ReplacesOnTie(score, len, best_score) ==
    score * best_score[2] >= best_score[1] * len /\ score > 0

\* line 256: normalized_score > best_score and score > 0.  The quotient
\* score / len(phrase_words) is kept as the pair <<score, len>>; the quotients
\* that occur (0, 1/2, 1) are exact in binary floating point, so comparing by
\* cross-multiplication is what the float comparison computes.
Replaces(score, len, best_score) ==
    score * best_score[2] > best_score[1] * len /\ score > 0

\* line 245: phrase.split() of every key
PhraseWords == [i \in CatalogRefs |-> Split(CatalogKeys[i])]

\* lines 241-258: one pass over COMMAND_MAPPINGS.items() from entry i on
RECURSIVE BestMatchLoop(_, _, _, _, _)
BestMatchLoop(h, words, i, best_match, best_score) ==
    IF i > NumPhrases
    THEN [heap |-> h, best_match |-> best_match, best_score |-> best_score]
    ELSE IF HasKey(h[i], "modifier")
         THEN BestMatchLoop(h, words, i + 1, best_match, best_score)
         ELSE LET phrase_words == PhraseWords[i]
                  score == MatchCount(phrase_words, words)
              IN  IF Replaces(score, Len(phrase_words), best_score)
                  THEN LET c == DictCopy(Release(h, best_match), i)
                       IN  BestMatchLoop(c.heap, words, i + 1, c.ref,
                                         <<score, Len(phrase_words)>>)
                  ELSE BestMatchLoop(h, words, i + 1, best_match, best_score)

\* (mutant) the exact-match path returns the catalog entry itself
ExactMatchAlias(h, text) == [heap |-> h, ref |-> Lookup(text)]

\* lines 221-224: the exact-match path
ExactMatch(h, text) ==
    LET r == Lookup(text)
    IN  IF r # NoneRef THEN DictCopy(h, r) ELSE [heap |-> h, ref |-> NoneRef]

\* lines 260-268: apply the speed modifier to the best match
Compose(h, best_match, speed_modifier) ==
    IF speed_modifier # None
    THEN [heap |-> DictSet(h, best_match, "speed", speed_modifier), ref |-> best_match]
    ELSE [heap |-> h, ref |-> best_match]

\* the whole function: the heap afterwards and the reference it returns
parse_command_from_text(h, raw) ==
    LET text == Strip(Lower(raw))
        exact == ExactMatch(h, text)
    IN  IF exact.ref # NoneRef
        THEN exact
        ELSE LET words == Split(text)
                 speed_modifier == SpeedModifierScan(h, words)
                 best == BestMatchLoop(h, words, 1, NoneRef, <<0, 1>>)
             IN  IF best.best_match # NoneRef
                 THEN Compose(best.heap, best.best_match, speed_modifier)
                 ELSE [heap |-> h, ref |-> NoneRef]

\* ------------------------------------------------------------------ inputs
SeqsUpTo(W, n) == UNION { [1..k -> W] : k \in 0..n }

\* a token sequence of words, from a sequence of one-atom tokens
Words(ts) == [i \in 1..Len(ts) |-> ts[i][1]]

\* the inputs, as word sequences: short sequences of any words, longer ones of
\* core words, and every catalog phrase followed by a word of no phrase
TokenSeqs ==
    SeqsUpTo(Vocabulary, MaxTokens)
    \cup SeqsUpTo(CoreVocabulary, MaxCoreTokens)
    \cup { Words(PhraseWords[i]) \o <<x>> : i \in CatalogRefs, x \in OtherWords }

Spaces(n) == [i \in 1..n |-> SP]

\* the words of ws separated by sep
RECURSIVE Join(_, _)
Join(ws, sep) ==
    IF ws = <<>> THEN <<>>
    ELSE IF Len(ws) = 1 THEN <<ws[1]>>
    ELSE <<ws[1]>> \o sep \o Join(Tail(ws), sep)

Forms == { "plain", "spaced", "upper" }

Render(ws, form) ==
    CASE form = "plain"  -> Join(ws, Spaces(1))
      [] form = "spaced" -> Spaces(PadWidth) \o Join(ws, Spaces(SepWidth)) \o Spaces(PadWidth)
      [] form = "upper"  -> Upper(Join(ws, Spaces(1)))

Texts == { Render(ws, f) : ws \in TokenSeqs, f \in Forms }

RoverIps == { None, "", "192.168.4.1" }

\* the catalog entries that are command templates, and those that are modifiers
TemplateRefs == { i \in CatalogRefs : ~HasKey(CatalogValues[i], "modifier") }
ModifierRefs == CatalogRefs \ TemplateRefs

\* the words of the arbitrary short transcripts
SpokenWords == { "forward", "left", "stop", "fast", "slowly", "really" }

\* utterances that combine a command phrase with other words
SpokenExamples ==
    { <<"stop", "quickly">>, <<"turn", "left", "slowly">>, <<"go", "really", "forward">>,
      <<"halt", "fast", "slowly">>, <<"slide", "right", "slow">> }

\* what the speech service may have heard: a short sequence of spoken words, a
\* catalog phrase, or one of the spoken examples, in any of the forms
TranscriptTokenSeqs ==
    SeqsUpTo(SpokenWords, MaxTranscriptTokens)
    \cup { Words(PhraseWords[i]) : i \in CatalogRefs }
    \cup SpokenExamples

TranscriptTexts == { Render(ws, f) : ws \in TranscriptTokenSeqs, f \in Forms }

\* the request events: event['body'] missing, a string json.loads rejects, null,
\* or an object with or without 'audio' (valid or invalid base64) and 'rover_ip'
Events ==
    { [body |-> b, audio |-> "absent", rover_ip |-> None] :
          b \in {"absent", "bad_json", "null"} }
    \cup { [body |-> "object", audio |-> a, rover_ip |-> ip] :
          a \in {"absent", "valid", "invalid"}, ip \in RoverIps }

NoEvent == [body |-> "absent", audio |-> "absent", rover_ip |-> None]

\* statuses get_transcription_job may report; the code tells COMPLETED and
\* FAILED from every other status, which IN_PROGRESS stands for
JobStatuses == { "IN_PROGRESS", "COMPLETED", "FAILED" }

max_wait_time == 30
wait_interval == 1

\* ------------------------------------------------------------------- state
VARIABLES
    heap,          \* the dict objects: the catalog entries and the live command
    text,          \* argument of a direct call of parse_command_from_text
    result,        \* what that call returned (a reference)
    ppc,           \* position of that caller
    pc,            \* position of the request being handled
    event,         \* the event lambda_handler was invoked with
    uploaded,      \* put_object succeeded: the blob audio_key exists
    elapsed_time,  \* transcribe_audio's elapsed_time
    transcript,    \* <<>> for None, <<t>> for the string t
    command,       \* process_voice_command's command (a reference)
    trace,         \* the operations of this request so far, in order
    response       \* what lambda_handler returned

pvars == <<text, result, ppc>>
hvars == <<pc, event, uploaded, elapsed_time, transcript, command, trace, response>>
vars == <<heap, text, result, ppc,
          pc, event, uploaded, elapsed_time, transcript, command, trace, response>>

NoResponse == [statusCode |-> 0, success |-> FALSE, command |-> <<>>, error |-> <<>>]

IdleHandler ==
    /\ pc = "idle"
    /\ event = NoEvent
    /\ uploaded = FALSE
    /\ elapsed_time = 0
    /\ transcript = <<>>
    /\ command = NoneRef
    /\ trace = <<>>
    /\ response = NoResponse

\* ------------------------------------------- parse_command_from_text alone
ParseInit ==
    /\ heap = InitialHeap
    /\ text \in Texts
    /\ result = NoneRef
    /\ ppc = "call"
    /\ IdleHandler

\* a call parse_command_from_text(text)
ParseCall ==
    /\ ppc = "call"
    /\ \E p \in {parse_command_from_text(heap, text)} :
          /\ heap' = p.heap
          /\ result' = p.ref
    /\ ppc' = "returned"
    /\ UNCHANGED text
    /\ UNCHANGED hvars

\* the caller writes into the dict it got back (line 130)
CallerMutates ==
    /\ ppc = "returned"
    /\ result # NoneRef
    /\ \E ip \in RoverIps \ {None, ""} :
          heap' = DictSet(heap, result, "rover_ip", ip)
    /\ ppc' = "mutated"
    /\ UNCHANGED <<text, result>>
    /\ UNCHANGED hvars

ParseNext == ParseCall \/ CallerMutates

ParseSpec == ParseInit /\ [][ParseNext]_vars

\* ------------------------------------------------------------ the responses
create_success_response(cmd) ==
    [statusCode |-> 200, success |-> TRUE, command |-> <<cmd>>, error |-> <<>>]

create_error_response(status_code, message) ==
    [statusCode |-> status_code, success |-> FALSE, command |-> <<>>, error |-> message]

\* (mutant) the handler's except clause answers 400 and drops the message
InternalErrorAs400(msg) == create_error_response(400, <<"No valid command recognized">>)

\* lines 91-93: the handler's own except clause
InternalError(msg) == create_error_response(500, <<"Internal server error: ", msg>>)

\* (mutant) no command is answered as an internal error
AnswerNoneAs500(h, c) ==
    IF c # NoneRef
    THEN create_success_response(h[c])
    ELSE InternalError("No valid command recognized")

\* lines 84-89 after process_voice_command returned the reference c
Answer(h, c) ==
    IF c # NoneRef
    THEN create_success_response(h[c])
    ELSE create_error_response(400, <<"No valid command recognized">>)

Did(op, out) == [op |-> op, out |-> out]

\* str(e) of the fault an operation of lambda_handler's own body raises
FaultMessage(op) ==
    CASE op = "json.loads" -> "JSONDecodeError"
      [] op = "audio in body" -> "TypeError"

\* (mutant) the address is attached whenever there is a command
AddsRoverIpAlways(c, rover_ip) == c # NoneRef

\* line 129: `if command and rover_ip`
AddsRoverIp(c, rover_ip) == c # NoneRef /\ rover_ip # None /\ rover_ip # ""

\* line 119: `if not transcript`
NoTranscript(t) == t = <<>> \/ t[1] = <<>>

\* line 171: the loop test
\* (mutant) the ceiling is tested with <=: one poll too many
KeepsWaitingInclusive(elapsed) == elapsed <= max_wait_time

KeepsWaiting(elapsed) == elapsed < max_wait_time

\* ------------------------------------------------------------- the request
\* lambda_handler(event, context) is invoked
Invoke ==
    /\ pc = "idle"
    /\ \E e \in Events : event' = e
    /\ pc' = "check_body"
    /\ UNCHANGED <<heap, uploaded, elapsed_time, transcript, command, trace, response>>
    /\ UNCHANGED pvars

\* lines 68-72
CheckBody ==
    /\ pc = "check_body"
    /\ CASE event.body = "absent" ->
              /\ response' = create_error_response(400, <<"Missing request body">>)
              /\ pc' = "done"
              /\ UNCHANGED trace
         [] event.body = "bad_json" ->
              /\ trace' = Append(trace, Did("json.loads", "fault"))
              /\ response' = InternalError(FaultMessage("json.loads"))
              /\ pc' = "done"
         [] OTHER ->
              /\ pc' = "check_audio"
              /\ UNCHANGED <<trace, response>>
    /\ UNCHANGED <<heap, event, uploaded, elapsed_time, transcript, command>>
    /\ UNCHANGED pvars

\* (mutant) the audio field is not tested: its absence goes on to the pipeline
CheckAudioUntested ==
    /\ pc = "check_audio"
    /\ CASE event.body = "null" ->
              /\ trace' = Append(trace, Did("audio in body", "fault"))
              /\ response' = InternalError(FaultMessage("audio in body"))
              /\ pc' = "done"
         [] OTHER ->
              /\ pc' = "decode"
              /\ UNCHANGED <<trace, response>>
    /\ UNCHANGED <<heap, event, uploaded, elapsed_time, transcript, command>>
    /\ UNCHANGED pvars

\* lines 75-79
CheckAudio ==
    /\ pc = "check_audio"
    /\ CASE event.body = "null" ->
              /\ trace' = Append(trace, Did("audio in body", "fault"))
              /\ response' = InternalError(FaultMessage("audio in body"))
              /\ pc' = "done"
         [] event.body = "object" /\ event.audio = "absent" ->
              /\ response' = create_error_response(400, <<"Missing audio data">>)
              /\ pc' = "done"
              /\ UNCHANGED trace
         [] OTHER ->
              /\ pc' = "decode"
              /\ UNCHANGED <<trace, response>>
    /\ UNCHANGED <<heap, event, uploaded, elapsed_time, transcript, command>>
    /\ UNCHANGED pvars

\* line 101; a fault is caught at lines 141-143 and lambda_handler answers (87-89)
Decode ==
    /\ pc = "decode"
    /\ IF event.audio = "invalid"
       THEN /\ trace' = Append(trace, Did("b64decode", "fault"))
            /\ response' = Answer(heap, NoneRef)
            /\ pc' = "done"
       ELSE /\ trace' = Append(trace, Did("b64decode", "ok"))
            /\ pc' = "upload"
            /\ UNCHANGED response
    /\ UNCHANGED <<heap, event, uploaded, elapsed_time, transcript, command>>
    /\ UNCHANGED pvars

\* lines 105-114: AUDIO_BUCKET may be unset, put_object may raise
Upload ==
    /\ pc = "upload"
    /\ \E out \in {"ok", "fault", "no_bucket"} :
          CASE out = "ok" ->
                 /\ trace' = Append(trace, Did("put_object", "ok"))
                 /\ uploaded' = TRUE
                 /\ pc' = "start_job"
                 /\ UNCHANGED response
            [] out = "fault" ->
                 /\ trace' = Append(trace, Did("put_object", "fault"))
                 /\ response' = Answer(heap, NoneRef)
                 /\ pc' = "done"
                 /\ UNCHANGED uploaded
            [] out = "no_bucket" ->
                 /\ trace' = Append(trace, Did("environ", "fault"))
                 /\ response' = Answer(heap, NoneRef)
                 /\ pc' = "done"
                 /\ UNCHANGED uploaded
    /\ UNCHANGED <<heap, event, elapsed_time, transcript, command>>
    /\ UNCHANGED pvars

\* (mutant) no `finally`: a fault of the start leaves without deleting the job
StartJobSkipsCleanup ==
    /\ pc = "start_job"
    /\ \E out \in {"ok", "fault"} :
          /\ trace' = Append(trace, Did("start_transcription_job", out))
          /\ pc' = IF out = "ok" THEN "poll" ELSE "check_transcript"
    /\ elapsed_time' = 0
    /\ UNCHANGED <<heap, event, uploaded, transcript, command, response>>
    /\ UNCHANGED pvars

\* lines 152-169; a fault goes to the except clause (203-205), then `finally`
StartJob ==
    /\ pc = "start_job"
    /\ \E out \in {"ok", "fault"} :
          /\ trace' = Append(trace, Did("start_transcription_job", out))
          /\ pc' = IF out = "ok" THEN "poll" ELSE "delete_job"
    /\ elapsed_time' = 0
    /\ UNCHANGED <<heap, event, uploaded, transcript, command, response>>
    /\ UNCHANGED pvars

\* (mutant) the transcript is fetched whatever final status the poll returned
PollFetchesOnFailed ==
    /\ pc = "poll"
    /\ KeepsWaiting(elapsed_time)
    /\ \E out \in JobStatuses \cup {"fault"} :
          /\ trace' = Append(trace, Did("get_transcription_job", out))
          /\ CASE out \in {"COMPLETED", "FAILED"} -> pc' = "fetch" /\ UNCHANGED elapsed_time
               [] out = "fault" -> pc' = "delete_job" /\ UNCHANGED elapsed_time
               [] OTHER -> pc' = "poll" /\ elapsed_time' = elapsed_time + wait_interval
    /\ UNCHANGED <<heap, event, uploaded, transcript, command, response>>
    /\ UNCHANGED pvars

\* lines 171-198: one iteration of the polling loop
Poll ==
    /\ pc = "poll"
    /\ KeepsWaiting(elapsed_time)
    /\ \E out \in JobStatuses \cup {"fault"} :
          /\ trace' = Append(trace, Did("get_transcription_job", out))
          /\ CASE out = "COMPLETED" -> pc' = "fetch" /\ UNCHANGED elapsed_time
               [] out \in {"FAILED", "fault"} -> pc' = "delete_job" /\ UNCHANGED elapsed_time
               [] OTHER -> pc' = "poll" /\ elapsed_time' = elapsed_time + wait_interval
    /\ UNCHANGED <<heap, event, uploaded, transcript, command, response>>
    /\ UNCHANGED pvars

\* line 171 false, lines 200-201
PollTimeout ==
    /\ pc = "poll"
    /\ ~KeepsWaiting(elapsed_time)
    /\ pc' = "delete_job"
    /\ UNCHANGED <<heap, event, uploaded, elapsed_time, transcript, command, trace, response>>
    /\ UNCHANGED pvars

\* lines 181-191: fetch the transcript object, read the text, lower and strip it
Fetch ==
    /\ pc = "fetch"
    /\ \/ /\ trace' = Append(trace, Did("get_object", "fault"))
          /\ UNCHANGED transcript
       \/ /\ trace' = Append(Append(trace, Did("get_object", "ok")),
                             Did("read_transcript", "fault"))
          /\ UNCHANGED transcript
       \/ \E raw \in TranscriptTexts :
             /\ trace' = Append(trace, Did("get_object", "ok"))
             /\ transcript' = <<Strip(Lower(raw))>>
    /\ pc' = "delete_job"
    /\ UNCHANGED <<heap, event, uploaded, elapsed_time, command, response>>
    /\ UNCHANGED pvars

\* lines 206-211: the finally clause; a fault of the delete is swallowed
DeleteJob ==
    /\ pc = "delete_job"
    /\ \E out \in {"ok", "fault"} :
          trace' = Append(trace, Did("delete_transcription_job", out))
    /\ pc' = "check_transcript"
    /\ UNCHANGED <<heap, event, uploaded, elapsed_time, transcript, command, response>>
    /\ UNCHANGED pvars

\* lines 117-123; without a transcript process_voice_command returns None at
\* line 121 and lambda_handler answers (87-89)
CheckTranscript ==
    /\ pc = "check_transcript"
    /\ IF NoTranscript(transcript)
       THEN /\ response' = Answer(heap, NoneRef)
            /\ pc' = "done"
       ELSE /\ pc' = "parse"
            /\ UNCHANGED response
    /\ UNCHANGED <<heap, event, uploaded, elapsed_time, transcript, command, trace>>
    /\ UNCHANGED pvars

\* line 126
ParseTranscript ==
    /\ pc = "parse"
    /\ \E p \in {parse_command_from_text(heap, transcript[1])} :
          /\ heap' = p.heap
          /\ command' = p.ref
    /\ trace' = Append(trace, Did("parse", "ok"))
    /\ pc' = "add_ip"
    /\ UNCHANGED <<event, uploaded, elapsed_time, transcript, response>>
    /\ UNCHANGED pvars

\* lines 129-130
AddRoverIp ==
    /\ pc = "add_ip"
    /\ heap' = IF AddsRoverIp(command, event.rover_ip)
               THEN DictSet(heap, command, "rover_ip", event.rover_ip)
               ELSE heap
    /\ pc' = "delete_blob"
    /\ UNCHANGED <<event, uploaded, elapsed_time, transcript, command, trace, response>>
    /\ UNCHANGED pvars


\* (mutant) a fault of the blob delete is not swallowed: it reaches the except
\* clause of process_voice_command, which returns None
DeleteBlobFaultPropagates ==
    /\ pc = "delete_blob"
    /\ \E out \in {"ok", "fault"} :
          /\ trace' = Append(trace, Did("delete_object", out))
          /\ command' = IF out = "ok" THEN command ELSE NoneRef
          /\ heap' = IF out = "ok" THEN heap ELSE Release(heap, command)
    /\ pc' = "respond"
    /\ UNCHANGED <<event, uploaded, elapsed_time, transcript, response>>
    /\ UNCHANGED pvars

\* lines 133-137: a fault of the delete is logged and swallowed
DeleteBlob ==
    /\ pc = "delete_blob"
    /\ \E out \in {"ok", "fault"} :
          trace' = Append(trace, Did("delete_object", out))
    /\ pc' = "respond"
    /\ UNCHANGED <<heap, event, uploaded, elapsed_time, transcript, command, response>>
    /\ UNCHANGED pvars

\* line 139, then lines 84-89
Respond ==
    /\ pc = "respond"
    /\ response' = Answer(heap, command)
    /\ pc' = "done"
    /\ UNCHANGED <<heap, event, uploaded, elapsed_time, transcript, command, trace>>
    /\ UNCHANGED pvars

\* the invocation is over; its objects are dropped and the next one may come
Return ==
    /\ pc = "done"
    /\ heap' = Release(heap, command)
    /\ pc' = "idle"
    /\ event' = NoEvent
    /\ uploaded' = FALSE
    /\ elapsed_time' = 0
    /\ transcript' = <<>>
    /\ command' = NoneRef
    /\ trace' = <<>>
    /\ response' = NoResponse
    /\ UNCHANGED pvars

Init ==
    /\ heap = InitialHeap
    /\ text = <<>>
    /\ result = NoneRef
    /\ ppc = "unused"
    /\ IdleHandler

Next ==
    \/ Invoke \/ CheckBody \/ CheckAudio \/ Decode \/ Upload
    \/ StartJob \/ Poll \/ PollTimeout \/ Fetch \/ DeleteJob
    \/ CheckTranscript \/ ParseTranscript \/ AddRoverIp \/ DeleteBlob
    \/ Respond \/ Return

Spec == Init /\ [][Next]_vars

\* ================================================================== claims
\* the text as parse_command_from_text sees it, and its words
Norm(t) == Strip(Lower(t))
NormWords(t) == Split(Norm(t))

\* number of words of template phrase i among ws, for every template phrase
Counts(ws) == [i \in TemplateRefs |-> MatchCount(PhraseWords[i], ws)]

\* phrase i scores strictly more than phrase j
ScoresMore(c, i, j) == c[i] * Len(PhraseWords[j]) > c[j] * Len(PhraseWords[i])

\* phrase i reaches the maximal score, and that score is not zero
IsMaximal(c, i) == c[i] > 0 /\ \A j \in TemplateRefs : ~ScoresMore(c, j, i)

\* the earliest phrase, in catalog order, that reaches the maximal score
EarliestBest(c) ==
    CHOOSE i \in TemplateRefs :
        IsMaximal(c, i) /\ \A j \in TemplateRefs : j < i => ~IsMaximal(c, j)

HasCandidate(c) == \E i \in TemplateRefs : c[i] > 0

\* the call returned through the best-match scan with a template
ScanReturned ==
    /\ ppc = "returned"
    /\ Lookup(Norm(text)) = NoneRef
    /\ result # NoneRef

\* C1: a text that, lowercased and trimmed, is a speed-modifier phrase ('slow',
\* 'fast', 'quickly', 'slowly') makes parse_command_from_text return None.
C1_BareModifierIsAbsent ==
    (ppc = "returned" /\ Lookup(Norm(text)) \in ModifierRefs) => result = NoneRef

\* C4: when the best-match scan decides, the command returned is the template of
\* the earliest phrase, in catalog definition order, among those that reach the
\* maximal non-zero score.
C4_TieKeepsEarliestPhrase ==
    (ppc = "returned" /\ Lookup(Norm(text)) = NoneRef) =>
        LET c == Counts(NormWords(text))
        IN  HasCandidate(c) =>
              /\ result # NoneRef
              /\ heap[result].action = CatalogValues[EarliestBest(c)].action
              /\ heap[result].direction = CatalogValues[EarliestBest(c)].direction

\* C4 witness: the scan returned for an input on which two phrases with
\* different templates tie at the maximal score
C4_Witness ==
    /\ ScanReturned
    /\ LET c == Counts(NormWords(text))
       IN  \E i, j \in TemplateRefs :
              /\ i < j
              /\ IsMaximal(c, i)
              /\ IsMaximal(c, j)
              /\ CatalogValues[i].action # CatalogValues[j].action

\* C5: for a catalog phrase p mapped to a template, parse_command_from_text(p)
\* returns a dict with the action, direction and speed of catalog[p]; it is a
\* new object, not the catalog's, and writing into it leaves catalog[p] as it was.
C5_ExactMatchIsACopy ==
    (ppc \in {"returned", "mutated"} /\ Lookup(text) \in TemplateRefs) =>
        LET p == Lookup(text)
        IN  /\ result # NoneRef
            /\ result \notin CatalogRefs
            /\ heap[result].action = CatalogValues[p].action
            /\ heap[result].direction = CatalogValues[p].direction
            /\ heap[result].speed = CatalogValues[p].speed
            /\ heap[p] = CatalogValues[p]

\* C5 witness: the caller has written into the dict returned for a catalog phrase
C5_Witness ==
    /\ ppc = "mutated"
    /\ Lookup(text) \in TemplateRefs
    /\ HasKey(heap[result], "rover_ip")

\* the position of the first word that is a speed modifier, 0 if there is none
FirstModifierAt(ws) ==
    IF \E k \in 1..Len(ws) : Lookup(ws[k]) \in ModifierRefs
    THEN CHOOSE k \in 1..Len(ws) :
            /\ Lookup(ws[k]) \in ModifierRefs
            /\ \A m \in 1..(k - 1) : Lookup(ws[m]) \notin ModifierRefs
    ELSE 0

\* C7: when the best-match scan returns a template, its speed is the value of
\* the first word that is a speed modifier, also for a stop command, and the
\* template's own speed when no word is a modifier; 'stop quickly' gives
\* {stop, None, fast} and 'turn left slowly' gives {turn, left, slow}.
C7_FirstModifierSetsSpeed ==
    ScanReturned =>
        LET ws == NormWords(text)
            k == FirstModifierAt(ws)
        IN  /\ k # 0 => heap[result].speed = CatalogValues[Lookup(ws[k])].value
            /\ k = 0 => heap[result].speed = CatalogValues[EarliestBest(Counts(ws))].speed
            /\ text = <<"stop", SP, "quickly">> => heap[result] = Cmd("stop", None, "fast")
            /\ text = <<"turn", SP, "left", SP, "slowly">> =>
                   heap[result] = Cmd("turn", "left", "slow")

\* C7 witness: a stop command with two different modifiers after it
C7_Witness ==
    /\ ScanReturned
    /\ text = <<"stop", SP, "fast", SP, "slowly">>
    /\ heap[result] = Cmd("stop", None, "fast")

\* C8: parse_command_from_text returns None exactly when the text is not an
\* exact template phrase and no template phrase has a word among the input words.
C8_AbsentIffNoCandidate ==
    ppc = "returned" =>
        (result = NoneRef <=>
            /\ Lookup(Norm(text)) \notin TemplateRefs
            /\ ~HasCandidate(Counts(NormWords(text))))

\* the operation op was attempted in this request, with the outcome out
Happened(op, out) == \E i \in 1..Len(trace) : trace[i] = Did(op, out)
Attempted(op) == \E i \in 1..Len(trace) : trace[i].op = op

\* C2: once put_object has succeeded, a delete of the blob is attempted before
\* the request ends, whatever the exit path.
C2_BlobDeleteOnEveryExit ==
    (pc = "done" /\ uploaded) => Attempted("delete_object")

\* faults raised by lambda_handler's own statements, before process_voice_command
HandlerFaultOps == { "json.loads", "audio in body" }

\* faults raised inside process_voice_command and transcribe_audio, cleanup apart
PipelineFaultOps ==
    { "b64decode", "environ", "put_object", "start_transcription_job",
      "get_transcription_job", "get_object", "read_transcript" }

\* C3 (as stated): every unexpected fault of a request (decoding, storage,
\* network) ends in HTTP 500 with the fault's message in the error body.
C3_EveryFaultIs500 ==
    (pc = "done" /\ \E op \in HandlerFaultOps \cup PipelineFaultOps : Happened(op, "fault"))
        => response.statusCode = 500

\* C3 (amended): a fault raised by lambda_handler's own statements (json.loads of
\* the body, the audio lookup in a body that is no object) ends in HTTP 500 with
\* the fault's message in the error body; a fault raised inside
\* process_voice_command (base64 decoding, AUDIO_BUCKET lookup, put_object,
\* starting or polling the job, fetching or reading the transcript) is caught
\* there and ends in HTTP 400 "No valid command recognized".
C3_HandlerFaultIs500PipelineFaultIs400 ==
    pc = "done" =>
        /\ \A op \in HandlerFaultOps :
              Happened(op, "fault") =>
                  /\ response.statusCode = 500
                  /\ response.error = <<"Internal server error: ", FaultMessage(op)>>
        /\ \A op \in PipelineFaultOps :
              Happened(op, "fault") =>
                  /\ response.statusCode = 400
                  /\ response.error = <<"No valid command recognized">>

\* C3 witness: the body was a string json.loads rejects and the answer is the 500
C3_Witness ==
    /\ pc = "done"
    /\ Happened("json.loads", "fault")
    /\ response.statusCode = 500
    /\ response.success = FALSE

\* C6: whatever requests were handled, every entry of COMMAND_MAPPINGS is as
\* it was defined.
C6_CatalogUnchanged ==
    /\ CatalogRefs \subseteq DOMAIN heap
    /\ \A r \in CatalogRefs : heap[r] = CatalogValues[r]

\* C6 witness: a request ended whose command had its speed overwritten by a
\* modifier and the rover address written into it
C6_Witness ==
    /\ pc = "done"
    /\ response.statusCode = 200
    /\ transcript = << <<"stop", SP, "quickly">> >>
    /\ response.command[1].speed = "fast"
    /\ HasKey(response.command[1], "rover_ip")

\* what parse_command_from_text makes of the text t when nothing has touched
\* the catalog: <<>> for None, <<d>> for the dict d
Parsed(t) ==
    LET p == parse_command_from_text(InitialHeap, t)
    IN  IF p.ref = NoneRef THEN <<>> ELSE <<p.heap[p.ref]>>

\* the request supplied a rover address
Supplied(ip) == ip # None /\ ip # ""

\* the dict d with rover_ip set to ip
WithRoverIp(d, ip) == [k \in DOMAIN d \cup {"rover_ip"} |-> IF k = "rover_ip" THEN ip ELSE d[k]]

\* C9: when transcribe_audio returns a transcript t and parse_command_from_text(t)
\* is a command c, lambda_handler answers 200, success true, with the command c,
\* to which rover_ip is added exactly when the request supplied an address; for
\* 'move forward' the command is {move, forward, normal}.
C9_TranscriptToCommand ==
    (pc = "done" /\ ~NoTranscript(transcript)) =>
        LET c == Parsed(transcript[1])
            ip == event.rover_ip
        IN  /\ c # <<>> =>
                 /\ response.statusCode = 200
                 /\ response.success = TRUE
                 /\ response.command =
                        <<IF Supplied(ip) THEN WithRoverIp(c[1], ip) ELSE c[1]>>
            /\ (transcript[1] = <<"move", SP, "forward">> /\ ~Supplied(ip)) =>
                 response.command = <<Cmd("move", "forward", "normal")>>

\* C9 witness: 'move forward' was heard in a request that supplied an address
C9_Witness ==
    /\ pc = "done"
    /\ transcript = << <<"move", SP, "forward">> >>
    /\ event.rover_ip = "192.168.4.1"
    /\ response.statusCode = 200
    /\ response.command[1].rover_ip = "192.168.4.1"

\* the job reported FAILED, or the polling loop ran out of time
JobFailed == Happened("get_transcription_job", "FAILED")
TimedOut == pc # "poll" /\ elapsed_time >= max_wait_time

\* C10: when the job reports FAILED, or does not complete before the timeout,
\* transcribe_audio returns None and lambda_handler answers 400, success false.
C10_FailedOrTimedOutIs400 ==
    (JobFailed \/ TimedOut) =>
        /\ transcript = <<>>
        /\ pc = "done" =>
              /\ response.statusCode = 400
              /\ response.success = FALSE

\* C10 witness: the answer to a request whose polling loop timed out
C10_Witness ==
    /\ pc = "done"
    /\ TimedOut
    /\ ~JobFailed
    /\ response.statusCode = 400

\* the handler runs to completion: a call of get_transcription_job returns or
\* raises, and the loop test of line 171 is evaluated
FairSpec == Spec /\ WF_vars(Poll) /\ WF_vars(PollTimeout)

\* how often the operation op was attempted in this request
Count(op) == Cardinality({ i \in 1..Len(trace) : trace[i].op = op })

\* transcribe_audio was called and has not returned yet / has returned
InTranscribe == pc \in {"poll", "fetch", "delete_job"}
AfterTranscribe == Attempted("start_transcription_job") /\ ~InTranscribe

\* C11: every call of transcribe_audio attempts delete_transcription_job exactly
\* once before it returns, on every exit path (COMPLETED, FAILED, timeout, a
\* fault while starting, polling or fetching), and not before its cleanup phase.
C11_JobDeleteExactlyOnce ==
    /\ InTranscribe => Count("delete_transcription_job") = 0
    /\ AfterTranscribe => Count("delete_transcription_job") = 1
    /\ ~Attempted("start_transcription_job") => Count("delete_transcription_job") = 0

\* C11 witness: transcribe_audio returned after start_transcription_job raised,
\* and the job delete was attempted
C11_Witness ==
    /\ pc = "check_transcript"
    /\ Happened("start_transcription_job", "fault")
    /\ Count("delete_transcription_job") = 1

\* a cleanup operation raised in this request
CleanupFault ==
    Happened("delete_transcription_job", "fault") \/ Happened("delete_object", "fault")

\* the transcript file was fetched and read
Fetched == Happened("get_object", "ok") /\ ~Happened("read_transcript", "fault")

\* the response a request with this transcript and address gets when every
\* cleanup operation succeeds
CleanOutcome ==
    IF NoTranscript(transcript)
    THEN create_error_response(400, <<"No valid command recognized">>)
    ELSE LET c == Parsed(transcript[1])
             ip == event.rover_ip
         IN  IF c = <<>>
             THEN create_error_response(400, <<"No valid command recognized">>)
             ELSE create_success_response(
                      IF Supplied(ip) THEN WithRoverIp(c[1], ip) ELSE c[1])

\* C12: a fault raised by delete_transcription_job or by the blob's delete_object
\* never changes the outcome: the transcript that was fetched is kept, and the
\* parsed command and the HTTP response are those of a request whose cleanup
\* succeeded.
C12_CleanupFaultKeepsOutcome ==
    /\ (CleanupFault /\ Fetched) => transcript # <<>>
    /\ (CleanupFault /\ pc = "done") =>
           /\ response = CleanOutcome
           /\ response.command = IF command = NoneRef THEN <<>> ELSE <<heap[command]>>

\* C12 witness: both cleanup operations raised and the request was answered 200
C12_Witness ==
    /\ pc = "done"
    /\ Happened("delete_transcription_job", "fault")
    /\ Happened("delete_object", "fault")
    /\ response.statusCode = 200

\* the positions of the polls in the trace, and of those that told the job is
\* still running
PollsAt == { i \in 1..Len(trace) : trace[i].op = "get_transcription_job" }
WaitingPollsAt == { i \in PollsAt : trace[i].out = "IN_PROGRESS" }

\* at most max_wait_time polls, one per wait_interval of elapsed time, and a
\* poll that did not say IN_PROGRESS is the last one
PollsBounded ==
    /\ Cardinality(PollsAt) <= max_wait_time
    /\ (Attempted("start_transcription_job") /\ pc # "start_job") =>
           elapsed_time = wait_interval * Cardinality(WaitingPollsAt)
    /\ \A i \in PollsAt \ WaitingPollsAt :
           /\ \A j \in PollsAt : j <= i
           /\ pc # "poll"
    /\ pc = "poll" => Cardinality(PollsAt) = Cardinality(WaitingPollsAt)

\* C13: the polling loop always terminates: it polls at most 30 times, once per
\* 1-second interval, and ends on the first COMPLETED, the first FAILED (or a
\* fault), or at the 30-second ceiling, also when the job stays IN_PROGRESS.
C13_PollingTerminates ==
    /\ []PollsBounded
    /\ (pc = "poll") ~> (pc # "poll")

\* C13 witness: the job stayed IN_PROGRESS for 30 polls and the loop was left
C13_Witness ==
    /\ pc = "delete_job"
    /\ Cardinality(WaitingPollsAt) = max_wait_time
    /\ elapsed_time = max_wait_time * wait_interval

\* the operations on the blob store and on the transcription service
ExternalOps ==
    { "put_object", "start_transcription_job", "get_transcription_job",
      "get_object", "read_transcript", "delete_transcription_job", "delete_object" }

\* the request in progress has no body, or a body without an audio field
NoBodyOrNoAudio ==
    /\ pc # "idle"
    /\ \/ event.body = "absent"
       \/ event.body = "object" /\ event.audio = "absent"

\* C14: a request with no body, or whose body has no audio field, is answered
\* 400 with success false, and no external operation is performed for it (no
\* upload, no job start, no delete).
C14_MissingInputIs400NoOps ==
    NoBodyOrNoAudio =>
        /\ \A i \in 1..Len(trace) : trace[i].op \notin ExternalOps
        /\ ~uploaded
        /\ pc \in {"check_body", "check_audio", "done"}
        /\ pc = "done" =>
               /\ response.statusCode = 400
               /\ response.success = FALSE
               /\ response.command = <<>>

\* C14 witness: a body without an audio field was answered
C14_Witness ==
    /\ pc = "done"
    /\ event.body = "object"
    /\ event.audio = "absent"
    /\ response.statusCode = 400

\* the number of positions of the phrase whose word is one of the tokens
PresentCount(phrase_words, ws) ==
    Cardinality({ k \in 1..Len(phrase_words) :
                    \E j \in 1..Len(ws) : ws[j] = phrase_words[k] })

Reverse(ws) == [j \in 1..Len(ws) |-> ws[Len(ws) + 1 - j]]

\* C15: the score of a template phrase is (its words present among the input
\* tokens) / (its number of words): it lies in [0, 1] and does not change when
\* the tokens are reordered, repeated, or joined by a token that is no word of
\* the phrase; consequently parse('go really forward') = parse('forward').
C15_ScoreIsFractionOfPhraseWords ==
    ppc = "returned" =>
        LET ws == NormWords(text)
        IN  /\ \A i \in TemplateRefs :
                  LET pw == PhraseWords[i]
                      score == MatchCount(pw, ws)
                  IN  /\ score = PresentCount(pw, ws)
                      /\ 0 <= score /\ score <= Len(pw)
                      /\ MatchCount(pw, Reverse(ws)) = score
                      /\ MatchCount(pw, ws \o ws) = score
                      /\ \A x \in Vocabulary :
                            ~InList(<<x>>, pw) => MatchCount(pw, Append(ws, <<x>>)) = score
            /\ Norm(text) = <<"go", SP, "really", SP, "forward">> =>
                  /\ result # NoneRef
                  /\ <<heap[result]>> = Parsed(<<"forward">>)
                  /\ heap[result] = Cmd("move", "forward", "normal")

\* C15 witness: 'go really forward' was parsed, with tokens around the one word
\* of the phrase 'forward'
C15_Witness ==
    /\ ppc = "returned"
    /\ Norm(text) = <<"go", SP, "really", SP, "forward">>
    /\ MatchCount(PhraseWords[1], NormWords(text)) = 1
    /\ heap[result].action = "move"

\* d is a ParsedCommand: an action, a direction and a speed, and no modifier
IsParsedCommand(d) ==
    /\ HasKey(d, "action")
    /\ HasKey(d, "speed")
    /\ ~HasKey(d, "modifier")
    /\ d.action \in {"move", "turn", "strafe", "diagonal", "stop"}
    /\ d.speed \in {"slow", "normal", "fast", None}

\* C16: every HTTP 200 response carries a ParsedCommand: its action is one of
\* move, turn, strafe, diagonal, stop and its speed is slow, normal, fast or
\* null; no 200 response carries a speed-modifier record as its command.
C16_Every200CarriesParsedCommand ==
    (pc = "done" /\ response.statusCode = 200) =>
        /\ response.command # <<>>
        /\ IsParsedCommand(response.command[1])

\* C17: for every catalog phrase p mapped to a template and every token x that
\* is a word of no catalog phrase, parse_command_from_text(p + ' ' + x) returns
\* the action and direction of parse_command_from_text(p), i.e. of catalog[p].
C17_ExtraWordKeepsCommand ==
    ppc = "returned" =>
        \A i \in TemplateRefs : \A x \in OtherWords :
            NormWords(text) = Append(PhraseWords[i], <<x>>) =>
                /\ result # NoneRef
                /\ Parsed(CatalogKeys[i]) # <<>>
                /\ heap[result].action = Parsed(CatalogKeys[i])[1].action
                /\ heap[result].direction = Parsed(CatalogKeys[i])[1].direction

\* the positions in the trace at which the operation op was attempted
At(op) == { i \in 1..Len(trace) : trace[i].op = op }

\* C18: the external operations of one request happen in a fixed order: the blob
\* put precedes the job start; every poll comes after the job start and before
\* the job delete; the transcript is fetched only after a poll returned
\* COMPLETED; the command is parsed only after the job delete; and there is no
\* poll and no fetch after the job delete.
C18_OperationsInOrder ==
    /\ \A s \in At("start_transcription_job") :
           \E p \in At("put_object") : p < s /\ trace[p].out = "ok"
    /\ \A g \in At("get_transcription_job") :
           /\ \E s \in At("start_transcription_job") : s < g /\ trace[s].out = "ok"
           /\ \A d \in At("delete_transcription_job") : g < d
    /\ \A f \in At("get_object") \cup At("read_transcript") :
           /\ \E g \in At("get_transcription_job") :
                  g < f /\ trace[g].out = "COMPLETED"
           /\ \A d \in At("delete_transcription_job") : f < d
    /\ \A r \in At("parse") :
           \E d \in At("delete_transcription_job") : d < r
    /\ \A d \in At("delete_transcription_job") :
           \E s \in At("start_transcription_job") : s < d

\* C18 witness: a request went through put, start, a waiting poll, a completed
\* poll, the fetch, the job delete and the parse
C18_Witness ==
    /\ Happened("put_object", "ok")
    /\ Happened("get_transcription_job", "IN_PROGRESS")
    /\ Happened("get_transcription_job", "COMPLETED")
    /\ Happened("get_object", "ok")
    /\ Attempted("delete_transcription_job")
    /\ Attempted("parse")
====
